---------------------------- MODULE Spec2Model ----------------------------
(***************************************************************************)
(* Model of scripts/generate_tiles.py: main() validates the source image,  *)
(* ReforgerTileGenerator slices it into level-0 tiles (the Base Tiler,     *)
(* _generate_base_tiles), builds every coarser level from the previous one *)
(* (the Pyramid Builder, _generate_zoom_level), then writes metadata.json  *)
(* and leaflet-config.js.                                                  *)
(*                                                                         *)
(* One action is one loop iteration or one straight-line stretch of the    *)
(* script.  Resampling (Image.resize with LANCZOS) is modelled by its      *)
(* geometry: output pixel (i, j) samples input pixel (i*w \div w',         *)
(* j*h \div h'); the interpolation weights and the JPEG quantisation are   *)
(* not modelled.                                                           *)
(***************************************************************************)
EXTENDS Integers, Sequences, FiniteSets, TLC

(***************************************************************************)
(* Bounds of the model.                                                    *)
(***************************************************************************)
MaxGrid == 4           \* --meters-per-tile values give up to MaxGrid tiles per axis
MaxSourcePx == 4       \* source widths are 1..MaxSourcePx
MaxTileSize == 3       \* --tile-size values are 1..MaxTileSize
MaxFailures == 1       \* injected per-tile I/O failures in one run

VARIABLES
    source_image,      \* the file at args.source_image: [state, width, height]
    empty_crop,        \* what the image library does with an empty crop box,
                       \* per box shape: "unknown" until the run first meets one
    map_size_km,       \* args.size
    meters_per_tile,   \* args.meters_per_tile
    tile_size_px,      \* args.tile_size
    pc,                \* position of the script
    tiles_per_axis,    \* self.tiles_per_axis
    max_zoom,          \* self.max_zoom
    tile_source_size,  \* tile_source_size of _generate_base_tiles
    zoom,              \* loop variable of generate_all_tiles
    tile_x,            \* loop variable of the tile loops
    tile_y,            \* loop variable of the tile loops
    tiles,             \* output directory: key <<zoom, x, y>> -> raster
    metadata,          \* metadata.json: <<>> until written, then zoomLevels
    leaflet_config,    \* leaflet-config.js written
    exit_code,         \* value returned by main(), -1 while running
    visited,           \* history: cells whose loop body has run
    started,           \* history: level >= 1 cells whose canvas was allocated
    written,           \* history: sequence of tile keys in the order saved
    level_steps,       \* history: tiles_this_level of every _generate_zoom_level call
    failed,            \* history: cells whose loop body raised
    injected           \* history: cells that met an injected I/O failure

vars == <<source_image, empty_crop, map_size_km, meters_per_tile, tile_size_px,
          pc, tiles_per_axis, max_zoom, tile_source_size, zoom, tile_x, tile_y,
          tiles, metadata, leaflet_config, exit_code,
          visited, started, written, level_steps, failed, injected>>

inputs == <<source_image, empty_crop, map_size_km, meters_per_tile, tile_size_px>>
history == <<visited, started, written, level_steps, failed, injected>>

\* --size values of the model (the default is 13)
MapSizesKm == {1}

(***************************************************************************)
(* Arithmetic helpers.                                                     *)
(***************************************************************************)
Max(a, b) == IF a > b THEN a ELSE b
Min(a, b) == IF a < b THEN a ELSE b

RECURSIVE Pow2(_)
Pow2(z) == IF z = 0 THEN 1 ELSE 2 * Pow2(z - 1)

\* math.ceil(math.log2(n)) for n >= 1: the least k with 2^k >= n
RECURSIVE CeilLog2From(_, _)
CeilLog2From(n, k) == IF Pow2(k) >= n THEN k ELSE CeilLog2From(n, k + 1)
CeilLog2(n) == CeilLog2From(n, 0)

\* self.map_size_m = map_size_km * 1000
MapSizeM(km) == km * 1000

\* self.tiles_per_axis = self.map_size_m // meters_per_tile
TilesPerAxis(km, mpt) == MapSizeM(km) \div mpt

\* a level grid rounded up instead of down: -(-tiles_per_axis // 2 ** zoom)
TilesThisLevelCeil(n, z) == (n + Pow2(z) - 1) \div Pow2(z)

\* tiles_this_level = self.tiles_per_axis // (2 ** zoom)
TilesThisLevel(n, z) == n \div Pow2(z)

\* tile_source_size = int(meters_per_tile * (source_width / map_size_m)):
\* truncation of the product, computed here in exact arithmetic.  On every
\* input of this model the double-precision product truncates to the same
\* value; in general it can fall just below an integer the exact product
\* reaches (int(100 * (290 / 1000)) is 28).
TileSourceSize(mpt, width, km) == (mpt * width) \div MapSizeM(km)

(***************************************************************************)
(* Rasters.  A size x size raster is the row-major sequence of its pixels; *)
(* a pixel is <<colour, level, x, y>>: its colour and the place it was     *)
(* taken from, tile (level, x, y) or pixel (x, y) of the source raster.    *)
(***************************************************************************)
SOURCE == -1           \* level of a pixel sampled from the source raster
BLANK == -2            \* level of a pixel nothing was pasted on

\* position of pixel (i, j) in a raster, and back
PixelIndex(i, j, size) == 1 + i + size * j
PixelX(k, size) == (k - 1) % size
PixelY(k, size) == (k - 1) \div size

Colour(pixel) == pixel[1]
From(pixel) == <<pixel[2], pixel[3], pixel[4]>>

BlankPixel == <<0, BLANK, 0, 0>>

\* Image.new('RGB', (size, size)): an all-black canvas
NewImage(size) == [k \in 1 .. size * size |-> BlankPixel]

\* colour of source pixel (i, j): the source rasters of the model are
\* checkerboards of 2 x 2 pixel blocks in the colours 1 and 2
SourceColour(i, j) == 1 + ((i \div 2 + j \div 2) % 2)

\* a crop box whose right and lower edges are taken one pixel too far
CropBoxInclusive(x, y, tss, width, height) ==
    <<Max(0, x * tss), Max(0, y * tss),
      Min(x * tss + tss + 1, width), Min(y * tss + tss + 1, height)>>

\* crop_box of cell (x, y): <<left, upper, right, lower>>
CropBox(x, y, tss, width, height) ==
    <<Max(0, x * tss), Max(0, y * tss),
      Min(x * tss + tss, width), Min(y * tss + tss, height)>>

BoxWidth(box) == box[3] - box[1]
BoxHeight(box) == box[4] - box[2]
PositiveArea(box) == BoxWidth(box) > 0 /\ BoxHeight(box) > 0
BoxShape(box) == IF BoxWidth(box) < 0 \/ BoxHeight(box) < 0 THEN "inverted"
                 ELSE "degenerate"

\* source_img.crop(crop_box) followed by resize((size, size)) when the crop
\* is not already size x size
BaseTileImage(box, size) ==
    [k \in 1 .. size * size |->
        LET sx == box[1] + (PixelX(k, size) * BoxWidth(box)) \div size
            sy == box[2] + (PixelY(k, size) * BoxHeight(box)) \div size
        IN  <<SourceColour(sx, sy), SOURCE, sx, sy>>]

\* Image.open(src_tile_path): the raster saved under key, its pixels tagged
\* with the tile they are read from
OpenTile(store, key) ==
    [k \in DOMAIN store[key] |-> <<Colour(store[key][k]), key[1], key[2], key[3]>>]

\* img.resize((outsize, outsize)) of an insize x insize raster
Resize(img, insize, outsize) ==
    [k \in 1 .. outsize * outsize |->
        img[PixelIndex((PixelX(k, outsize) * insize) \div outsize,
                       (PixelY(k, outsize) * insize) \div outsize, insize)]]

\* canvas.paste(img, (ox, oy)) for an isize x isize raster img
Paste(canvas, size, img, isize, ox, oy) ==
    [k \in 1 .. size * size |->
        IF /\ PixelX(k, size) - ox \in 0 .. isize - 1
           /\ PixelY(k, size) - oy \in 0 .. isize - 1
        THEN img[PixelIndex(PixelX(k, size) - ox, PixelY(k, size) - oy, isize)]
        ELSE canvas[k]]

\* half_size = self.tile_size_px // 2
HalfSize(size) == size \div 2

\* the (dx, dy) pairs in the order "for dx in range(2): for dy in range(2)"
Quadrants == <<(<<0, 0>>), (<<0, 1>>), (<<1, 0>>), (<<1, 1>>)>>

\* source tile coordinates with dx and dy exchanged
SrcTileKeySwapped(z, x, y, q) == <<z - 1, x * 2 + q[2], y * 2 + q[1]>>

\* (prev_zoom, src_tile_x, src_tile_y) of quadrant q of cell (z, x, y)
SrcTileKey(z, x, y, q) == <<z - 1, x * 2 + q[1], y * 2 + q[2]>>

\* a paste position that ignores dy
PasteAtTopRow(q, half) == <<q[1] * half, 0>>

\* (paste_x, paste_y) of quadrant q
PasteAt(q, half) == <<q[1] * half, q[2] * half>>

\* quadrants of cell (z, x, y) whose file exists: os.path.exists(src_tile_path)
PresentQuadrants(store, z, x, y) ==
    {k \in 1 .. 4 : SrcTileKey(z, x, y, Quadrants[k]) \in DOMAIN store}

\* the "Combine 4 quadrants" loop from quadrant number k on
RECURSIVE CombineFrom(_, _, _, _, _, _, _)
CombineFrom(canvas, k, store, z, x, y, size) ==
    IF k > 4 THEN canvas
    ELSE LET q == Quadrants[k]
             key == SrcTileKey(z, x, y, q)
             half == HalfSize(size)
             at == PasteAt(q, half)
             next == IF key \in DOMAIN store
                     THEN Paste(canvas, size,
                                Resize(OpenTile(store, key), size, half),
                                half, at[1], at[2])
                     ELSE canvas
         IN  CombineFrom(next, k + 1, store, z, x, y, size)

\* combined_img of cell (z, x, y)
CombinedImage(store, z, x, y, size) ==
    CombineFrom(NewImage(size), 1, store, z, x, y, size)

\* zoomLevels of _generate_metadata: entry zoom + 1 is tilesPerAxis of zoom
ZoomLevels(n, maxz) == [i \in 1 .. maxz + 1 |-> Max(1, n \div Pow2(i - 1))]

(***************************************************************************)
(* Initial state: the command line and the file system before main().      *)
(***************************************************************************)
\* the output directory holds no tile before the run
NoTiles == [k \in {} |-> NewImage(0)]

\* the files main may be given: absent, not an image, an image whose header
\* reads but whose pixel data does not load, or a sound image, square or
\* half as high as wide.  (Only the width enters the scale and no crop
\* window passes it, so a source taller than wide is cut like a square one.)
SourceImages ==
    {[state |-> "missing", width |-> 1, height |-> 1],
     [state |-> "unidentifiable", width |-> 1, height |-> 1],
     [state |-> "truncated", width |-> MaxSourcePx, height |-> MaxSourcePx]}
    \cup {img \in [state : {"ok"}, width : 1 .. MaxSourcePx,
                   height : 1 .. MaxSourcePx] :
             img.height \in {img.width, img.width \div 2}}

MetersPerTileValues(km) ==
    {MapSizeM(km) \div k : k \in 1 .. MaxGrid} \cup {2 * MapSizeM(km)}

Init ==
    /\ source_image \in SourceImages
    /\ empty_crop = [shape \in {"inverted", "degenerate"} |-> "unknown"]
    /\ map_size_km \in MapSizesKm
    /\ meters_per_tile \in MetersPerTileValues(map_size_km)
    /\ tile_size_px \in 1 .. MaxTileSize
    /\ pc = "main"
    /\ tiles_per_axis = 0
    /\ max_zoom = 0
    /\ tile_source_size = 0
    /\ zoom = 0
    /\ tile_x = 0
    /\ tile_y = 0
    /\ tiles = NoTiles
    /\ metadata = <<>>
    /\ leaflet_config = FALSE
    /\ exit_code = -1
    /\ visited = {}
    /\ started = {}
    /\ written = <<>>
    /\ level_steps = <<>>
    /\ failed = {}
    /\ injected = {}

(***************************************************************************)
(* main()                                                                  *)
(***************************************************************************)
\* main returns code
Return(code) ==
    /\ pc' = "done"
    /\ exit_code' = code

\* lines 444-467: the source file is checked and its header read; a missing
\* file returns 1, a file Image.open cannot identify raises and returns 1.
\* (The 300 MP confirmation and --max-source-size are out of the bounds.)
ValidateSource ==
    /\ pc = "main"
    /\ IF source_image.state \in {"missing", "unidentifiable"}
       THEN Return(1)
       ELSE pc' = "construct" /\ UNCHANGED exit_code
    /\ UNCHANGED <<inputs, tiles_per_axis, max_zoom, tile_source_size, zoom,
                   tile_x, tile_y, tiles, metadata, leaflet_config, history>>

\* lines 495-501 and __init__: math.log2(0) raises ValueError, caught by
\* main's "except Exception" (return 1)
Construct ==
    /\ pc = "construct"
    /\ LET n == TilesPerAxis(map_size_km, meters_per_tile)
       IN  IF n < 1
           THEN /\ Return(1)
                /\ tiles_per_axis' = n
                /\ UNCHANGED max_zoom
           ELSE /\ tiles_per_axis' = n
                /\ max_zoom' = CeilLog2(n)
                /\ pc' = "load_source"
                /\ UNCHANGED exit_code
    /\ UNCHANGED <<inputs, tile_source_size, zoom, tile_x, tile_y, tiles,
                   metadata, leaflet_config, history>>

(***************************************************************************)
(* Base Tiler: _generate_base_tiles                                        *)
(***************************************************************************)
\* lines 78-121: open the source (lazily: only the header is read) and
\* compute the crop window size
LoadSource ==
    /\ pc = "load_source"
    /\ IF source_image.state \in {"missing", "unidentifiable"}
       THEN /\ Return(1)
            /\ UNCHANGED <<tile_source_size, tile_x, tile_y>>
       ELSE /\ tile_source_size' =
                   TileSourceSize(meters_per_tile, source_image.width, map_size_km)
            /\ tile_x' = 0
            /\ tile_y' = 0
            /\ pc' = "base_tiles"
            /\ UNCHANGED exit_code
    /\ UNCHANGED <<inputs, tiles_per_axis, max_zoom, zoom, tiles, metadata,
                   leaflet_config, history>>

\* the loop variables after the body of cell (x, y) of an n x n grid:
\* "for tile_x in range(n): for tile_y in range(n)"
NextCell(x, y, n) == IF y + 1 < n THEN <<x, y + 1>> ELSE <<x + 1, 0>>

\* tile loops that stop one column early: range(n - 1)
LoopDoneEarly(x, n) == x >= n - 1

\* the tile loops of an n x n grid are exhausted
LoopDone(x, n) == x >= n

\* an I/O failure may be injected into the body of one more cell
CanInject == Cardinality(injected) < MaxFailures

\* the outcomes the image library can have for crop(box) followed by
\* resize: a box of positive area is cut out; an empty box is either
\* rejected (ValueError) or gives an empty image that resamples to black,
\* the same way for every box of that shape in one run
CropOutcomes(box, known) ==
    IF PositiveArea(box) THEN {"image"}
    ELSE IF known[BoxShape(box)] = "unknown" THEN {"raise", "blank"}
    ELSE {known[BoxShape(box)]}

\* an I/O failure (resize or save) is injected only into the body of a cell
\* whose crop gave an image, not where the body raises anyway
CanFailOnIO(outcome) == outcome = "image" /\ source_image.state # "truncated"

\* the body of the base loop raises for cell box: the pixel data of a
\* truncated source cannot be loaded, the library rejects the empty box, or
\* an I/O failure is injected
BaseTileRaises(outcome, io) ==
    \/ io
    \/ source_image.state = "truncated"
    \/ outcome = "raise"

\* what source_img.crop(box) resized to size x size is: an empty crop that
\* the library accepts resamples to an all-black raster
BaseTileRaster(box, size) ==
    IF PositiveArea(box) THEN BaseTileImage(box, size)
    ELSE NewImage(size)

\* lines 127-175: the body of the base loop for cell (tile_x, tile_y)
BaseTile ==
    /\ pc = "base_tiles"
    /\ ~LoopDone(tile_x, tiles_per_axis)
    /\ \E io \in BOOLEAN :
         /\ io => CanInject
         /\ LET key == <<0, tile_x, tile_y>>
                box == CropBox(tile_x, tile_y, tile_source_size,
                               source_image.width, source_image.height)
                cell == NextCell(tile_x, tile_y, tiles_per_axis)
            IN  \E outcome \in CropOutcomes(box, empty_crop) :
                /\ io => CanFailOnIO(outcome)
                /\ empty_crop' = IF PositiveArea(box) THEN empty_crop
                                 ELSE [empty_crop EXCEPT ![BoxShape(box)] = outcome]
                /\ IF BaseTileRaises(outcome, io)
                   THEN /\ failed' = failed \cup {key}
                        /\ UNCHANGED <<tiles, written>>
                   ELSE /\ tiles' = (key :> BaseTileRaster(box, tile_size_px)) @@ tiles
                        /\ written' = Append(written, key)
                        /\ UNCHANGED failed
                /\ injected' = IF io THEN injected \cup {key} ELSE injected
                /\ visited' = visited \cup {key}
                /\ tile_x' = cell[1]
                /\ tile_y' = cell[2]
    /\ UNCHANGED <<source_image, map_size_km, meters_per_tile, tile_size_px, pc,
                   tiles_per_axis, max_zoom, tile_source_size, zoom,
                   metadata, leaflet_config, exit_code, started, level_steps>>

\* lines 177-183 and line 63: the base loop is over, the zoom loop begins
FinishBaseTiles ==
    /\ pc = "base_tiles"
    /\ LoopDone(tile_x, tiles_per_axis)
    /\ zoom' = 1
    /\ pc' = "zoom_loop"
    /\ UNCHANGED <<inputs, tiles_per_axis, max_zoom, tile_source_size, tile_x,
                   tile_y, tiles, metadata, leaflet_config, exit_code, history>>

(***************************************************************************)
(* Pyramid Builder: the zoom loop and _generate_zoom_level                 *)
(***************************************************************************)
\* a zoom loop that stops one level early: range(1, self.max_zoom)
ZoomLoopDoneEarly(z, maxz) == z >= maxz

\* the zoom loop "for zoom in range(1, self.max_zoom + 1)" is exhausted
ZoomLoopDone(z, maxz) == z > maxz

\* lines 63-65 and 185-195: one call of _generate_zoom_level up to the tile
\* loops; a level of less than one tile returns at once
StartZoomLevel ==
    /\ pc = "zoom_loop"
    /\ ~ZoomLoopDone(zoom, max_zoom)
    /\ LET tiles_this_level == TilesThisLevel(tiles_per_axis, zoom)
       IN  /\ level_steps' = Append(level_steps, tiles_this_level)
           /\ IF tiles_this_level < 1
              THEN /\ zoom' = zoom + 1
                   /\ UNCHANGED <<pc, tile_x, tile_y>>
              ELSE /\ pc' = "compose"
                   /\ tile_x' = 0
                   /\ tile_y' = 0
                   /\ UNCHANGED zoom
    /\ UNCHANGED <<inputs, tiles_per_axis, max_zoom, tile_source_size, tiles,
                   metadata, leaflet_config, exit_code, visited, started,
                   written, failed, injected>>

\* a compose loop that opens the four source tiles without looking whether
\* they exist: an absent one raises FileNotFoundError
ComposeRaisesOnAbsent(present, io) ==
    \/ io
    \/ HalfSize(tile_size_px) < 1 /\ present # {}
    \/ present # 1 .. 4

\* the body of the compose loop raises: resize((0, 0)) of a present quadrant
\* when half_size is 0, or an injected I/O failure (open or save); nothing
\* in _generate_zoom_level catches it
ComposeRaises(present, io) ==
    \/ io
    \/ HalfSize(tile_size_px) < 1 /\ present # {}

\* lines 201-230: the body of the compose loop for cell (zoom, tile_x, tile_y)
ComposeTile ==
    /\ pc = "compose"
    /\ ~LoopDone(tile_x, TilesThisLevel(tiles_per_axis, zoom))
    /\ \E io \in BOOLEAN :
         /\ io => CanInject
         /\ LET key == <<zoom, tile_x, tile_y>>
                present == PresentQuadrants(tiles, zoom, tile_x, tile_y)
                cell == NextCell(tile_x, tile_y,
                                 TilesThisLevel(tiles_per_axis, zoom))
            IN  /\ IF ComposeRaises(present, io)
                   THEN /\ failed' = failed \cup {key}
                        /\ Return(1)
                        /\ UNCHANGED <<tiles, written, tile_x, tile_y>>
                   ELSE /\ tiles' = (key :> CombinedImage(tiles, zoom, tile_x,
                                                          tile_y, tile_size_px))
                                    @@ tiles
                        /\ written' = Append(written, key)
                        /\ tile_x' = cell[1]
                        /\ tile_y' = cell[2]
                        /\ UNCHANGED <<failed, pc, exit_code>>
                /\ injected' = IF io THEN injected \cup {key} ELSE injected
                /\ visited' = visited \cup {key}
                /\ started' = started \cup {key}
    /\ UNCHANGED <<inputs, tiles_per_axis, max_zoom, tile_source_size, zoom,
                   metadata, leaflet_config, level_steps>>

\* line 232: the tile loops of the level are over, back to the zoom loop
FinishZoomLevel ==
    /\ pc = "compose"
    /\ LoopDone(tile_x, TilesThisLevel(tiles_per_axis, zoom))
    /\ zoom' = zoom + 1
    /\ pc' = "zoom_loop"
    /\ UNCHANGED <<inputs, tiles_per_axis, max_zoom, tile_source_size, tile_x,
                   tile_y, tiles, metadata, leaflet_config, exit_code, history>>

(***************************************************************************)
(* Orchestrator: metadata, viewer configuration, statistics                *)
(***************************************************************************)
\* lines 67-69 and 234-265
GenerateMetadata ==
    /\ pc = "zoom_loop"
    /\ ZoomLoopDone(zoom, max_zoom)
    /\ metadata' = ZoomLevels(tiles_per_axis, max_zoom)
    /\ pc' = "leaflet"
    /\ UNCHANGED <<inputs, tiles_per_axis, max_zoom, tile_source_size, zoom,
                   tile_x, tile_y, tiles, leaflet_config, exit_code, history>>

\* lines 71-73 and 267-389
GenerateLeafletConfig ==
    /\ pc = "leaflet"
    /\ leaflet_config' = TRUE
    /\ pc' = "statistics"
    /\ UNCHANGED <<inputs, tiles_per_axis, max_zoom, tile_source_size, zoom,
                   tile_x, tile_y, tiles, metadata, exit_code, history>>

\* lines 75-76, 391-406 and 503-528: _print_statistics divides by the number
\* of .jpg files, so an output without any tile raises ZeroDivisionError,
\* which main turns into return 1; otherwise main returns 0
PrintStatistics ==
    /\ pc = "statistics"
    /\ LET total_files == Cardinality(DOMAIN tiles)
       IN  IF total_files = 0 THEN Return(1) ELSE Return(0)
    /\ UNCHANGED <<inputs, tiles_per_axis, max_zoom, tile_source_size, zoom,
                   tile_x, tile_y, tiles, metadata, leaflet_config, history>>

Next ==
    \/ ValidateSource
    \/ Construct
    \/ LoadSource
    \/ BaseTile
    \/ FinishBaseTiles
    \/ StartZoomLevel
    \/ ComposeTile
    \/ FinishZoomLevel
    \/ GenerateMetadata
    \/ GenerateLeafletConfig
    \/ PrintStatistics

Spec == Init /\ [][Next]_vars

(***************************************************************************)
(* Properties                                                              *)
(***************************************************************************)
\* generate_all_tiles has returned and main returned 0
Completed == pc = "done" /\ exit_code = 0

\* the zoom loop has run to its end (metadata.json is written right after)
PyramidBuilt == metadata # <<>>

\* keys of the tiles in the output directory at level z
TilesAtLevel(z) == {k \in DOMAIN tiles : k[1] = z}

\* C1: after generate_all_tiles completes, for every tiles_per_axis >= 2 the
\* coarsest level max_zoom holds exactly one tile, (max_zoom, 0, 0).
C1_TopLevelHasOneTile ==
    (Completed /\ tiles_per_axis >= 2)
        => TilesAtLevel(max_zoom) = {<<max_zoom, 0, 0>>}

\* level_steps strictly decreases and holds the value 1
StepsDecreaseToOne ==
    /\ \A i \in 1 .. Len(level_steps) - 1 : level_steps[i + 1] < level_steps[i]
    /\ \E i \in 1 .. Len(level_steps) : level_steps[i] = 1

\* C2 as stated: for every tiles_per_axis >= 1 the pyramid build ends after
\* exactly max_zoom calls of the per-level step, tiles_this_level strictly
\* decreasing from call to call and being 1 at some call.
C2_StepsFromOneTile ==
    (PyramidBuilt /\ tiles_per_axis >= 1)
        => /\ Len(level_steps) = max_zoom
           /\ StepsDecreaseToOne

\* C2 amended: the pyramid build makes at most max_zoom calls of the
\* per-level step, call z computing tiles_this_level =
\* floor(tiles_per_axis / 2^z), which strictly decreases from call to call;
\* for every tiles_per_axis >= 2, a zoom loop that runs to its end has made
\* exactly max_zoom calls and tiles_this_level was 1 at one of them.
C2_StepsTerminate ==
    /\ Len(level_steps) <= max_zoom
    /\ \A i \in 1 .. Len(level_steps) :
          /\ level_steps[i] * Pow2(i) <= tiles_per_axis
          /\ tiles_per_axis < (level_steps[i] + 1) * Pow2(i)
    /\ \A i \in 1 .. Len(level_steps) - 1 : level_steps[i + 1] < level_steps[i]
    /\ (PyramidBuilt /\ tiles_per_axis >= 2)
          => /\ Len(level_steps) = max_zoom
             /\ StepsDecreaseToOne

\* a pyramid of a 3 x 3 grid or larger has been built
C2_Witness ==
    /\ PyramidBuilt
    /\ tiles_per_axis >= 3
    /\ Len(level_steps) >= 2

\* the base loop has run to its end
BaseTilerDone == zoom >= 1

\* the cells of the n x n grid of level z, as tile keys
GridCells(z, n) == {<<z, x, y>> : x \in 0 .. n - 1, y \in 0 .. n - 1}

\* the crop window of level-0 cell k in this run
Window(k) == CropBox(k[2], k[3], tile_source_size,
                     source_image.width, source_image.height)

\* C3: the Base Tiler visits exactly the tiles_per_axis^2 cells of the grid
\* and, for a readable source and a cell without I/O failure, emits tile
\* (0, x, y) if and only if the clamped crop window has positive area.
C3_EmitsIffPositiveArea ==
    (BaseTilerDone /\ source_image.state = "ok")
        => /\ {k \in visited : k[1] = 0} = GridCells(0, tiles_per_axis)
           /\ \A k \in GridCells(0, tiles_per_axis) \ injected :
                 k \in DOMAIN tiles <=> PositiveArea(Window(k))

\* pixel number k of a size x size canvas lies in quadrant (dx, dy)
InQuadrant(k, dx, dy, size) ==
    /\ dx * (size \div 2) <= PixelX(k, size)
    /\ PixelX(k, size) < dx * (size \div 2) + (size \div 2)
    /\ dy * (size \div 2) <= PixelY(k, size)
    /\ PixelY(k, size) < dy * (size \div 2) + (size \div 2)

\* the pixels of quadrant (dx, dy) of a size x size canvas
QuadrantPixels(dx, dy, size) ==
    {k \in 1 .. size * size : InQuadrant(k, dx, dy, size)}

\* the previous-level tile the claims name for quadrant (dx, dy) of tile key
QuadrantSource(key, dx, dy) == <<key[1] - 1, 2 * key[2] + dx, 2 * key[3] + dy>>

\* C4: in every emitted tile (z, x, y) with z >= 1, a pixel that was pasted
\* lies in one of the four quadrants (dx, dy) and comes from the tile
\* (z-1, 2x+dx, 2y+dy), with a colour of that tile; and when that tile
\* exists, every pixel of the quadrant comes from it.  No pixel comes from
\* another tile or from the source raster.
C4_QuadrantSources ==
    \A key \in DOMAIN tiles :
        key[1] >= 1 =>
          /\ \A k \in 1 .. tile_size_px * tile_size_px :
                tiles[key][k] # BlankPixel =>
                   \E dx \in {0, 1}, dy \in {0, 1} :
                      /\ InQuadrant(k, dx, dy, tile_size_px)
                      /\ From(tiles[key][k]) = QuadrantSource(key, dx, dy)
                      /\ QuadrantSource(key, dx, dy) \in DOMAIN tiles
                      /\ \E m \in 1 .. tile_size_px * tile_size_px :
                            Colour(tiles[QuadrantSource(key, dx, dy)][m])
                               = Colour(tiles[key][k])
          /\ \A dx \in {0, 1}, dy \in {0, 1} :
                QuadrantSource(key, dx, dy) \in DOMAIN tiles =>
                   \A k \in QuadrantPixels(dx, dy, tile_size_px) :
                      From(tiles[key][k]) = QuadrantSource(key, dx, dy)

\* a tile of level >= 1 all four quadrants of which were pasted
C4_Witness ==
    \E key \in DOMAIN tiles :
        /\ key[1] >= 1
        /\ tile_size_px >= 2
        /\ \A dx \in {0, 1}, dy \in {0, 1} :
              /\ QuadrantSource(key, dx, dy) \in DOMAIN tiles
              /\ \E k \in QuadrantPixels(dx, dy, tile_size_px) :
                    From(tiles[key][k]) = QuadrantSource(key, dx, dy)

\* the step is the body of the compose loop for cell key
ComposeStepOf(key) ==
    /\ pc = "compose"
    /\ key = <<zoom, tile_x, tile_y>>
    /\ key \notin started
    /\ key \in started'

\* the quadrants (dx, dy) of cell key whose source tile is not in store
AbsentQuadrants(store, key) ==
    {q \in {0, 1} \X {0, 1} : QuadrantSource(key, q[1], q[2]) \notin DOMAIN store}

\* C5: when some of the four previous-level tiles of a level-z cell are
\* absent, the compose step raises no error on their account (it raises
\* only on an I/O failure or on the zero-size resize of a present quadrant,
\* which it does with all four present as well); otherwise it emits tile
\* (z, x, y) and goes on to the next cell of the level; in the emitted tile
\* every pixel of an absent quadrant is blank and every pixel of a present
\* quadrant comes from that quadrant's tile.
C5_AbsentQuadrantsLeftBlank ==
    [][\A key \in {<<zoom, tile_x, tile_y>>} :
         (ComposeStepOf(key) /\ AbsentQuadrants(tiles, key) # {}) =>
            /\ (/\ injected' = injected
                /\ \/ tile_size_px >= 2
                   \/ AbsentQuadrants(tiles, key) = {0, 1} \X {0, 1})
                  => /\ key \in DOMAIN tiles'
                     /\ pc' = "compose"
                     /\ exit_code' = -1
                     /\ <<tile_x', tile_y'>> # <<tile_x, tile_y>>
            /\ key \in DOMAIN tiles' =>
                  \A q \in {0, 1} \X {0, 1} :
                     \A k \in QuadrantPixels(q[1], q[2], tile_size_px) :
                        IF q \in AbsentQuadrants(tiles, key)
                        THEN tiles'[key][k] = BlankPixel
                        ELSE From(tiles'[key][k]) = QuadrantSource(key, q[1], q[2])
      ]_vars

\* a tile of level >= 1 was emitted with a pasted and an absent quadrant
C5_Witness ==
    \E key \in DOMAIN tiles :
        /\ key[1] >= 1
        /\ tile_size_px >= 2
        /\ AbsentQuadrants(tiles, key) # {}
        /\ \E q \in ({0, 1} \X {0, 1}) \ AbsentQuadrants(tiles, key) :
              \E k \in QuadrantPixels(q[1], q[2], tile_size_px) :
                 From(tiles[key][k]) = QuadrantSource(key, q[1], q[2])
        /\ \E q \in AbsentQuadrants(tiles, key) :
              \E k \in QuadrantPixels(q[1], q[2], tile_size_px) :
                 tiles[key][k] = BlankPixel

\* C6: a failure while processing a single tile, in the Base Tiler or in the
\* Pyramid Builder, never aborts the run: the tile is absent from the
\* output, every level is processed to its end and main returns 0.  (Stated
\* for a readable source, two or more tiles per axis, crop windows of at
\* least one pixel and a tile size of two or more pixels.)
C6_TileFailureNeverAborts ==
    (/\ pc = "done"
     /\ failed # {}
     /\ source_image.state = "ok"
     /\ tiles_per_axis >= 2
     /\ tile_source_size >= 1
     /\ tile_size_px >= 2)
        => /\ exit_code = 0
           /\ PyramidBuilt
           /\ \A k \in failed : k \notin DOMAIN tiles

\* C7: if the source raster is missing or cannot be decoded, main returns 1
\* and no tile, no metadata.json and no viewer configuration is written.
C7_BadSourceAbortsFirst ==
    source_image.state # "ok"
        => /\ DOMAIN tiles = {}
           /\ metadata = <<>>
           /\ ~leaflet_config
           /\ pc = "done" => exit_code = 1

\* C8: level barrier.  A tile of level z >= 1 is started only when every
\* cell of level z-1 has been processed; a tile is never saved at a level
\* below one at which a tile has been started; no tile key is saved twice.
C8_LevelBarrier ==
    [][/\ \A k \in started' :
             GridCells(k[1] - 1, tiles_per_axis \div Pow2(k[1] - 1)) \subseteq visited
       /\ Len(written') > Len(written) =>
             /\ \A k \in started : k[1] <= written'[Len(written')][1]
             /\ \A i \in 1 .. Len(written) : written[i] # written'[Len(written')]
      ]_vars

\* a tile of level 2 has been started after tiles of levels 0 and 1 were saved
C8_Witness ==
    /\ \E k \in started : k[1] >= 2
    /\ \E i \in 1 .. Len(written) : written[i][1] = 0
    /\ \E i \in 1 .. Len(written) : written[i][1] = 1

\* the level-0 cells processed so far whose crop window holds source pixel (i, j)
WindowsHolding(i, j) ==
    {k \in visited : /\ k[1] = 0
                     /\ LET w == Window(k)
                        IN  w[1] <= i /\ i < w[3] /\ w[2] <= j /\ j < w[4]}

\* the source is square and map_size_m is a multiple of meters_per_tile
SquareAndDivisible ==
    /\ source_image.width = source_image.height
    /\ MapSizeM(map_size_km) % meters_per_tile = 0

\* C9 as stated: for a square source of width W and map_size_m divisible by
\* meters_per_tile, every source pixel lies in the crop window of exactly
\* one level-0 cell.  (Stated for crop windows of at least one pixel.)
C9_WindowsPartitionSource ==
    (BaseTilerDone /\ SquareAndDivisible /\ tile_source_size >= 1)
        => \A i \in 0 .. source_image.width - 1, j \in 0 .. source_image.width - 1 :
              Cardinality(WindowsHolding(i, j)) = 1

\* C9 amended: under the same conditions the crop windows never overlap,
\* and once the base level is done a source pixel (i, j) lies in exactly one
\* window if i and j are below tiles_per_axis * tile_source_size and in none
\* otherwise; the windows cover the whole source exactly when
\* tiles_per_axis * tile_source_size = W.
C9_WindowsPartitionCoveredSquare ==
    SquareAndDivisible
        => \A i \in 0 .. source_image.width - 1, j \in 0 .. source_image.width - 1 :
              LET holding == Cardinality(WindowsHolding(i, j))
              IN  /\ holding <= 1
                  /\ BaseTilerDone =>
                        (holding = 1 <=> /\ i < tiles_per_axis * tile_source_size
                                         /\ j < tiles_per_axis * tile_source_size)

\* the base level of a square source is done, several windows wide, and the
\* windows reach the right and lower edge
C9_Witness ==
    /\ BaseTilerDone
    /\ SquareAndDivisible
    /\ tiles_per_axis >= 2
    /\ tile_source_size >= 1
    /\ tiles_per_axis * tile_source_size = source_image.width
    /\ Cardinality({k \in visited : k[1] = 0}) = tiles_per_axis * tiles_per_axis

\* every pixel of raster img has colour c
SolidColour(img, c) == \A k \in DOMAIN img : Colour(img[k]) = c

\* tile key was composed from four present tiles that are all of colour c
FourSolidQuadrants(key, c) ==
    \A dx \in {0, 1}, dy \in {0, 1} :
        /\ QuadrantSource(key, dx, dy) \in DOMAIN tiles
        /\ SolidColour(tiles[QuadrantSource(key, dx, dy)], c)

\* the colours of the model: black (blank) and the two source colours
Colours == {0, 1, 2}

\* C10 as stated: for every tile_size_px, a tile composed from four present
\* previous-level tiles that are all of solid colour C is of solid colour C.
C10_SolidInSolidOut ==
    \A key \in DOMAIN tiles : \A c \in Colours :
        (key[1] >= 1 /\ FourSolidQuadrants(key, c)) => SolidColour(tiles[key], c)

\* C10 amended: for every even tile_size_px, a tile composed from four
\* present previous-level tiles that are all of solid colour C is of solid
\* colour C.
C10_SolidInSolidOutEven ==
    tile_size_px % 2 = 0 =>
        \A key \in DOMAIN tiles : \A c \in Colours :
            (key[1] >= 1 /\ FourSolidQuadrants(key, c)) => SolidColour(tiles[key], c)

\* a tile of even size composed from four present tiles of one source colour
C10_Witness ==
    /\ tile_size_px % 2 = 0
    /\ \E key \in DOMAIN tiles : \E c \in Colours \ {0} :
          /\ key[1] >= 1
          /\ FourSolidQuadrants(key, c)
          /\ SolidColour(tiles[key], c)

\* the Base Tiler has computed its crop window size
ScaleComputed == pc = "base_tiles" \/ BaseTilerDone

\* twice the distance of size * map_size_m from the exact product
\* meters_per_tile * source_width
TwiceRoundingError(size) ==
    LET d == size * MapSizeM(map_size_km) - meters_per_tile * source_image.width
    IN  2 * (IF d < 0 THEN -d ELSE d)

\* C11: the crop window size of the Base Tiler is meters_per_tile *
\* source_width / map_size_m rounded to the nearest integer (either
\* neighbour where the fraction is exactly one half).
C11_CropWindowIsRounded ==
    ScaleComputed => TwiceRoundingError(tile_source_size) <= MapSizeM(map_size_km)

\* tiles per axis of the grid of level z: tiles are (z, x, y) with
\* 0 <= x, y < tiles_per_axis / 2^z
GridExtent(z) == tiles_per_axis \div Pow2(z)

\* _generate_zoom_level(z) has returned after emitting tiles
LevelEmitted(z) ==
    /\ 1 <= z
    /\ z < zoom
    /\ TilesAtLevel(z) # {}

\* the quadrant the claims name for previous-level tile k
QuadrantOf(k) == <<(<<k[1] + 1, k[2] \div 2, k[3] \div 2>>), k[2] % 2, k[3] % 2>>

\* previous-level tile k is the source of the quadrant the claims name
FeedsItsQuadrant(k) ==
    LET q == QuadrantOf(k)
    IN  /\ q[1] \in DOMAIN tiles
        /\ \E p \in QuadrantPixels(q[2], q[3], tile_size_px) :
               From(tiles[q[1]][p]) = k

\* the tiles that pixels of emitted tile key were taken from
SourcesOf(key) ==
    {From(tiles[key][p]) : p \in 1 .. tile_size_px * tile_size_px}
        \ {From(BlankPixel)}

\* every pixel of emitted tile key that was taken from tile k lies in the
\* quadrant the claims name for k: k is the source of no other quadrant
FeedsNoOtherQuadrant(key) ==
    \A p \in 1 .. tile_size_px * tile_size_px :
        LET k == From(tiles[key][p])
        IN  k # From(BlankPixel) =>
               /\ key = QuadrantOf(k)[1]
               /\ InQuadrant(p, QuadrantOf(k)[2], QuadrantOf(k)[3], tile_size_px)

\* every previous-level tile that a composed cell asked for lies inside the
\* grid of the previous level
RequestsInsideExtent ==
    \A key \in started :
        \A dx \in {0, 1}, dy \in {0, 1} :
            /\ 2 * key[2] + dx < GridExtent(key[1] - 1)
            /\ 2 * key[3] + dy < GridExtent(key[1] - 1)

\* previous-level tile k lies in the part of its grid that the next level,
\* of GridExtent(k[1] + 1) tiles per axis, takes its quadrants from
InsideDoubledGrid(k) ==
    /\ k[2] < 2 * GridExtent(k[1] + 1)
    /\ k[3] < 2 * GridExtent(k[1] + 1)

\* C12 as stated: for every zoom z >= 1 at which the Pyramid Builder emitted
\* tiles, every tile (z-1, i, j) of the previous level is the source of
\* exactly one quadrant of exactly one level-z tile, that of
\* (z, i div 2, j div 2), so that no previous-level tile is left out; and
\* every quadrant index requested lies inside the previous level's grid
\* extent.
C12_EveryTileFeedsOneQuadrant ==
    /\ RequestsInsideExtent
    /\ \A z \in 1 .. max_zoom :
          LevelEmitted(z) =>
             /\ \A k \in TilesAtLevel(z - 1) : FeedsItsQuadrant(k)
             /\ \A key \in TilesAtLevel(z) : FeedsNoOtherQuadrant(key)

\* C12 amended: every quadrant index requested lies inside the previous
\* level's grid extent; and for every zoom z >= 1 at which the Pyramid
\* Builder emitted tiles, a tile (z-1, i, j) of the previous level with
\* i, j < 2 * floor(tiles_per_axis / 2^z) is the source of exactly one
\* quadrant of exactly one level-z tile, that of (z, i div 2, j div 2), while
\* the tiles of the last row and column of a previous level of odd extent
\* are the source of none.
C12_TilesInsideDoubledGridFeedOneQuadrant ==
    /\ RequestsInsideExtent
    /\ \A z \in 1 .. max_zoom :
          LevelEmitted(z) =>
             /\ \A k \in TilesAtLevel(z - 1) :
                   InsideDoubledGrid(k) => FeedsItsQuadrant(k)
             /\ \A key \in TilesAtLevel(z) :
                   /\ FeedsNoOtherQuadrant(key)
                   /\ \A k \in SourcesOf(key) : InsideDoubledGrid(k)

\* a level was emitted from a previous level of odd extent, one tile of
\* which fed its quadrant and one tile of which was left out
C12_Witness ==
    \E z \in 1 .. max_zoom :
        /\ LevelEmitted(z)
        /\ GridExtent(z - 1) % 2 = 1
        /\ \E k \in TilesAtLevel(z - 1) : InsideDoubledGrid(k) /\ FeedsItsQuadrant(k)
        /\ \E k \in TilesAtLevel(z - 1) :
              /\ ~InsideDoubledGrid(k)
              /\ \A key \in TilesAtLevel(z) : k \notin SourcesOf(key)

=============================================================================
